---- MODULE Spec2Model ----
(***************************************************************************)
(* Model of the Tendermint-style consensus core in src/src/lib.rs: the     *)
(* pure step function State::next, its handlers, and a driver that feeds   *)
(* it one event at a time starting from State::new(height).                *)
(***************************************************************************)
EXTENDS Integers, Sequences, FiniteSets, TLC

\* ------------------------------------------------------------------ bounds
\* Largest round number an event may name and the state may reach.
MaxRound == 2
\* Number of distinct values the driver may hand to the core.
NumValues == 2
\* Largest height State::new is called with.
MaxHeight == 1
\* Largest number of Decision messages recorded by the driver.
MaxDecisions == 2
\* Largest number of votes of one kind and round recorded by the driver.
MaxVotes == 2

Rounds == 0..MaxRound
Heights == 0..MaxHeight

\* ------------------------------------------------------------------- types
\* Value is opaque and compared with ==; the model names its inhabitants.
Value == 1..NumValues

\* Option<T>: None is the empty tuple, Some(x) the one-element tuple.
None == <<>>
Some(x) == <<x>>
IsSome(o) == o # None
Unwrap(o) == o[1]

RoundValue(round, value) == [round |-> round, value |-> value]

RoundStep == {"NewRound", "Propose", "Prevote", "Precommit", "Commit"}

\* ---------------------------------------------------------------- messages
Proposal_new(round, value, pol_round) ==
    [type |-> "Proposal", round |-> round, value |-> value, pol_round |-> pol_round]

Vote_new(round, value) == [round |-> round, value |-> value]

Timeout_new(round, step) == [type |-> "Timeout", round |-> round, step |-> step]

MessagePrevote(vote) ==
    [type |-> "Prevote", round |-> vote.round, value |-> vote.value]

MessagePrecommit(vote) ==
    [type |-> "Precommit", round |-> vote.round, value |-> vote.value]

MessageDecision(rv) ==
    [type |-> "Decision", round |-> rv.round, value |-> rv.value]

\* ------------------------------------------------------------------- state
State_new(height) ==
    [height |-> height, round |-> 0, step |-> "NewRound",
     locked |-> None, valid |-> None]

set_round_height(s, round) == [s EXCEPT !.round = round, !.height = round]

set_round(s, round) == [s EXCEPT !.round = round]

set_step(s, step) == [s EXCEPT !.step = step]

set_locked(s, locked) == [s EXCEPT !.locked = Some(RoundValue(s.round, locked))]

set_valid(s, valid) == [s EXCEPT !.valid = Some(RoundValue(s.round, valid))]

\* The pair (State, Option<Message>) every handler returns.
Ret(s, m) == [state |-> s, msg |-> m]

\* ---------------------------------------------------------------- handlers
handle_new_round_proposer_fresh(s0, r, v) ==
    LET s == set_step(set_round(s0, r), "Propose")
    IN  Ret(s, Some(Proposal_new(r, v, -1)))

handle_new_round_proposer(s0, r, v) ==
    LET s == set_step(set_round(s0, r), "Propose")
        value == IF IsSome(s.valid) THEN Unwrap(s.valid).value ELSE v
        round == IF IsSome(s.valid) THEN Unwrap(s.valid).round ELSE -1
    IN  Ret(s, Some(Proposal_new(r, value, round)))

handle_new_round_stale(s0, r) ==
    LET s == set_step(set_round(s0, r), "Propose")
    IN  Ret(s, Some(Timeout_new(s0.round, s.step)))

handle_new_round_nostep(s0, r) ==
    LET s == set_round(s0, r)
    IN  Ret(s, Some(Timeout_new(s.round, s.step)))

handle_new_round(s0, r) ==
    LET s == set_step(set_round(s0, r), "Propose")
    IN  Ret(s, Some(Timeout_new(s.round, s.step)))

handle_proposal_nolock(s0, proposed) ==
    LET s == set_step(s0, "Prevote")
    IN  Ret(s, Some(MessagePrevote(Vote_new(s.round, Some(proposed)))))

handle_proposal(s0, proposed) ==
    LET s == set_step(s0, "Prevote")
        value == IF IsSome(s.locked) /\ proposed # Unwrap(s.locked).value
                 THEN None
                 ELSE Some(proposed)
    IN  Ret(s, Some(MessagePrevote(Vote_new(s.round, value))))

handle_proposal_invalid(s0) ==
    LET s == set_step(s0, "Prevote")
    IN  Ret(s, Some(MessagePrevote(Vote_new(s.round, None))))

handle_proposal_polka(s0, vr, proposed) ==
    LET s == set_step(s0, "Prevote")
        value == IF IsSome(s.locked) /\ Unwrap(s.locked).round <= vr
                 THEN Some(proposed)
                 ELSE IF IsSome(s.locked) /\ Unwrap(s.locked).value = proposed
                 THEN Some(proposed)
                 ELSE None
    IN  Ret(s, Some(MessagePrevote(Vote_new(s.round, value))))

handle_timeout_propose(s0) ==
    LET s == set_step(s0, "Prevote")
    IN  Ret(s, Some(MessagePrevote(Vote_new(s.round, None))))

handle_polka_any(s) ==
    Ret(s, Some(Timeout_new(s.round, "Prevote")))

handle_polka_nil(s0) ==
    LET s == set_step(s0, "Precommit")
    IN  Ret(s, Some(MessagePrecommit(Vote_new(s.round, None))))

handle_polka_value_prevote_novalid(s0, v) ==
    LET s == set_step(set_locked(s0, v), "Precommit")
    IN  Ret(s, Some(MessagePrecommit(Vote_new(s.round, Some(v)))))

handle_polka_value_prevote(s0, v) ==
    LET s == set_step(set_valid(set_locked(s0, v), v), "Precommit")
    IN  Ret(s, Some(MessagePrecommit(Vote_new(s.round, Some(v)))))

handle_polka_value_precommit_relock(s0, v) ==
    LET s == set_valid(set_locked(s0, v), v)
    IN  Ret(s, None)

handle_polka_value_precommit_emit(s0, v) ==
    LET s == set_valid(s0, v)
    IN  Ret(s, Some(MessagePrecommit(Vote_new(s.round, Some(v)))))

handle_polka_value_precommit(s0, v) ==
    LET s == set_valid(s0, v)
    IN  Ret(s, None)

handle_timeout_prevote(s0) ==
    LET s == set_step(s0, "Precommit")
    IN  Ret(s, Some(MessagePrecommit(Vote_new(s.round, None))))

handle_precommit_any_step(s0) ==
    LET s == set_step(s0, "Precommit")
    IN  Ret(s, Some(Timeout_new(s.round, "Precommit")))

handle_precommit_any(s) ==
    Ret(s, Some(Timeout_new(s.round, "Precommit")))

handle_precommit_value_round(s0, r, v) ==
    LET s == set_step(s0, "Commit")
    IN  Ret(s, Some(MessageDecision(RoundValue(s.round, v))))

handle_precommit_value(s0, r, v) ==
    LET s == set_step(s0, "Commit")
    IN  Ret(s, Some(MessageDecision(RoundValue(r, v))))

\* ------------------------------------------------------------------ events
\* The Event alphabet; r and vr are round arguments, v a value.
Event ==
         [type : {"NewRound", "ProposalInvalid", "PolkaAny", "PolkaNil",
                  "PrecommitAny", "RoundSkip", "TimeoutPropose",
                  "TimeoutPrevote", "TimeoutPrecommit"}, r : Rounds]
    \cup [type : {"NewRoundProposer", "Proposal", "PolkaValue",
                  "PrecommitValue", "RoundSkipProposer",
                  "TimeoutPrecommitProposer"}, r : Rounds, v : Value]
    \cup [type : {"ProposalPolka"}, r : Rounds, vr : Rounds, v : Value]

\* ---------------------------------------------------------------- dispatch
\* The rules of State::next that match in any step (the `_` arms), tried in
\* order; the last arm returns the state unchanged with no message.
next_any_skip_le(s, e) ==
    LET round == s.round IN
    IF e.type = "PrecommitAny" /\ round = e.r
    THEN handle_precommit_any(s)
    ELSE IF e.type = "PrecommitValue"
    THEN handle_precommit_value(s, e.r, e.v)
    ELSE IF e.type = "RoundSkipProposer" /\ round < e.r
    THEN handle_new_round_proposer(s, e.r, e.v)
    ELSE IF e.type = "RoundSkip" /\ round <= e.r
    THEN handle_new_round(s, e.r)
    ELSE IF e.type = "TimeoutPrecommitProposer" /\ round = e.r
    THEN handle_new_round_proposer(s, e.r + 1, e.v)
    ELSE IF e.type = "TimeoutPrecommit"
    THEN handle_new_round(s, e.r + 1)
    ELSE Ret(s, None)

next_any_unguarded(s, e) ==
    LET round == s.round IN
    IF e.type = "PrecommitAny" /\ TRUE
    THEN handle_precommit_any(s)
    ELSE IF e.type = "PrecommitValue"
    THEN handle_precommit_value(s, e.r, e.v)
    ELSE IF e.type = "RoundSkipProposer" /\ round < e.r
    THEN handle_new_round_proposer(s, e.r, e.v)
    ELSE IF e.type = "RoundSkip" /\ round < e.r
    THEN handle_new_round(s, e.r)
    ELSE IF e.type = "TimeoutPrecommitProposer" /\ round = e.r
    THEN handle_new_round_proposer(s, e.r + 1, e.v)
    ELSE IF e.type = "TimeoutPrecommit"
    THEN handle_new_round(s, e.r + 1)
    ELSE Ret(s, None)

next_any(s, e) ==
    LET round == s.round IN
    IF e.type = "PrecommitAny" /\ round = e.r
    THEN handle_precommit_any(s)
    ELSE IF e.type = "PrecommitValue"
    THEN handle_precommit_value(s, e.r, e.v)
    ELSE IF e.type = "RoundSkipProposer" /\ round < e.r
    THEN handle_new_round_proposer(s, e.r, e.v)
    ELSE IF e.type = "RoundSkip" /\ round < e.r
    THEN handle_new_round(s, e.r)
    ELSE IF e.type = "TimeoutPrecommitProposer" /\ round = e.r
    THEN handle_new_round_proposer(s, e.r + 1, e.v)
    ELSE IF e.type = "TimeoutPrecommit"
    THEN handle_new_round(s, e.r + 1)
    ELSE Ret(s, None)

\* State::next: the step-specific arms first, then the arms for any step.
next(s, e) ==
    LET round == s.round IN
    IF s.step = "NewRound" /\ e.type = "NewRoundProposer"
    THEN handle_new_round_proposer(s, e.r, e.v)
    ELSE IF s.step = "NewRound" /\ e.type = "NewRound"
    THEN handle_new_round(s, e.r)
    ELSE IF s.step = "Propose" /\ e.type = "Proposal" /\ round = e.r
    THEN handle_proposal(s, e.v)
    ELSE IF s.step = "Propose" /\ e.type = "ProposalInvalid" /\ round = e.r
    THEN handle_proposal_invalid(s)
    ELSE IF s.step = "Propose" /\ e.type = "ProposalPolka" /\ round = e.r
    THEN handle_proposal_polka(s, e.vr, e.v)
    ELSE IF s.step = "Propose" /\ e.type = "TimeoutPropose" /\ round = e.r
    THEN handle_timeout_propose(s)
    ELSE IF s.step = "Prevote" /\ e.type = "PolkaAny" /\ round = e.r
    THEN handle_polka_any(s)
    ELSE IF s.step = "Prevote" /\ e.type = "PolkaNil" /\ round = e.r
    THEN handle_polka_nil(s)
    ELSE IF s.step = "Prevote" /\ e.type = "PolkaValue" /\ round = e.r
    THEN handle_polka_value_prevote(s, e.v)
    ELSE IF s.step = "Prevote" /\ e.type = "TimeoutPrevote" /\ round = e.r
    THEN handle_timeout_prevote(s)
    ELSE IF s.step = "Precommit" /\ e.type = "PolkaValue" /\ round = e.r
    THEN handle_polka_value_precommit(s, e.v)
    ELSE next_any(s, e)

\* ------------------------------------------------------------------ driver
\* The driver owns the State. It calls next with one event, then executes the
\* returned message (broadcast, arm a timer, deliver the decision) before it
\* feeds the next event.
\* state    the State the driver holds
\* prev     the State the call of next being executed was made on
\* event    the Event of that call, NoEvent when the driver is idle
\* message  the Option<Message> that call returned
\* decisions  number of Decision messages returned so far
\* created  the height the driver passed to State::new
\* script   the events fed and the messages returned since State::new(0),
\*          kept for as long as the events follow the non-proposer happy path
\* votes    per round, the number of Prevote and of Precommit messages
\*          returned so far, when the driver keeps that record
VARIABLES state, prev, event, message, decisions, created, script, votes

vars == <<state, prev, event, message, decisions, created, script, votes>>

\* The driver keeps no record of the votes.
NoVotes == [on |-> FALSE]

\* The vote record after message m was returned.
Tally(vt, m) ==
    IF ~vt.on \/ ~IsSome(m)
    THEN vt
    ELSE IF Unwrap(m).type = "Prevote"
    THEN [vt EXCEPT !.prevotes[Unwrap(m).round] = @ + 1]
    ELSE IF Unwrap(m).type = "Precommit"
    THEN [vt EXCEPT !.precommits[Unwrap(m).round] = @ + 1]
    ELSE vt

WithinMaxVotes(vt) ==
    vt.on => \A r \in Rounds : /\ vt.prevotes[r] <= MaxVotes
                               /\ vt.precommits[r] <= MaxVotes

\* The non-proposer happy path on value v.
HappyPath(v) ==
    << [type |-> "NewRound", r |-> 0],
       [type |-> "Proposal", r |-> 0, v |-> v],
       [type |-> "PolkaValue", r |-> 0, v |-> v],
       [type |-> "PrecommitValue", r |-> 0, v |-> v] >>

IsPrefix(s, t) ==
    /\ Len(s) <= Len(t)
    /\ \A i \in 1..Len(s) : s[i] = t[i]

OnScript(events) == \E v \in Value : IsPrefix(events, HappyPath(v))

\* The events left the happy path, or the height is not 0: nothing is kept.
NoScript == [on |-> FALSE, events |-> <<>>, msgs |-> <<>>]

Record(sc, e, m) ==
    IF sc.on /\ OnScript(Append(sc.events, e))
    THEN [on |-> TRUE, events |-> Append(sc.events, e),
          msgs |-> Append(sc.msgs, m)]
    ELSE NoScript

\* The driver is idle: no call of next is being executed.
NoEvent == [type |-> "Start"]

Init ==
    /\ \E h \in Heights : state = State_new(h) /\ created = h
    /\ prev = state
    /\ event = NoEvent
    /\ message = None
    /\ decisions = 0
    /\ script = IF created = 0
               THEN [on |-> TRUE, events |-> <<>>, msgs |-> <<>>]
               ELSE NoScript
    /\ votes = NoVotes

IsDecision(m) == IsSome(m) /\ Unwrap(m).type = "Decision"

\* One call  (state, message) = state.next(e)  made by the driver.
Deliver(e) ==
    LET res == next(state, e)
        n == decisions + (IF IsDecision(res.msg) THEN 1 ELSE 0)
    IN  /\ event = NoEvent
        /\ res.state.round <= MaxRound
        /\ n <= MaxDecisions
        /\ state' = res.state
        /\ message' = res.msg
        /\ prev' = state
        /\ event' = e
        /\ decisions' = n
        /\ WithinMaxVotes(Tally(votes, res.msg))
        /\ script' = Record(script, e, res.msg)
        /\ votes' = Tally(votes, res.msg)
        /\ UNCHANGED created

EventNewRound == \E r \in Rounds : Deliver([type |-> "NewRound", r |-> r])

EventNewRoundProposer ==
    \E r \in Rounds, v \in Value :
        Deliver([type |-> "NewRoundProposer", r |-> r, v |-> v])

EventProposal ==
    \E r \in Rounds, v \in Value :
        Deliver([type |-> "Proposal", r |-> r, v |-> v])

EventProposalInvalid ==
    \E r \in Rounds : Deliver([type |-> "ProposalInvalid", r |-> r])

EventProposalPolka ==
    \E r \in Rounds, vr \in Rounds, v \in Value :
        Deliver([type |-> "ProposalPolka", r |-> r, vr |-> vr, v |-> v])

EventPolkaAny == \E r \in Rounds : Deliver([type |-> "PolkaAny", r |-> r])

EventPolkaNil == \E r \in Rounds : Deliver([type |-> "PolkaNil", r |-> r])

EventPolkaValue ==
    \E r \in Rounds, v \in Value :
        Deliver([type |-> "PolkaValue", r |-> r, v |-> v])

EventPrecommitAny ==
    \E r \in Rounds : Deliver([type |-> "PrecommitAny", r |-> r])

EventPrecommitValue ==
    \E r \in Rounds, v \in Value :
        Deliver([type |-> "PrecommitValue", r |-> r, v |-> v])

EventRoundSkip == \E r \in Rounds : Deliver([type |-> "RoundSkip", r |-> r])

EventRoundSkipProposer ==
    \E r \in Rounds, v \in Value :
        Deliver([type |-> "RoundSkipProposer", r |-> r, v |-> v])

EventTimeoutPropose ==
    \E r \in Rounds : Deliver([type |-> "TimeoutPropose", r |-> r])

EventTimeoutPrevote ==
    \E r \in Rounds : Deliver([type |-> "TimeoutPrevote", r |-> r])

EventTimeoutPrecommit ==
    \E r \in Rounds : Deliver([type |-> "TimeoutPrecommit", r |-> r])

EventTimeoutPrecommitProposer ==
    \E r \in Rounds, v \in Value :
        Deliver([type |-> "TimeoutPrecommitProposer", r |-> r, v |-> v])

\* The driver has carried out the returned message and is idle again.
Execute ==
    /\ event # NoEvent
    /\ event' = NoEvent
    /\ message' = None
    /\ prev' = state
    /\ UNCHANGED <<state, decisions, created, script, votes>>

Next ==
    \/ EventNewRound
    \/ EventNewRoundProposer
    \/ EventProposal
    \/ EventProposalInvalid
    \/ EventProposalPolka
    \/ EventPolkaAny
    \/ EventPolkaNil
    \/ EventPolkaValue
    \/ EventPrecommitAny
    \/ EventPrecommitValue
    \/ EventRoundSkip
    \/ EventRoundSkipProposer
    \/ EventTimeoutPropose
    \/ EventTimeoutPrevote
    \/ EventTimeoutPrecommit
    \/ EventTimeoutPrecommitProposer
    \/ Execute

Spec == Init /\ [][Next]_vars

\* The same driver, keeping a record of the votes the replica emitted.
InitVotes ==
    /\ \E h \in Heights : state = State_new(h) /\ created = h
    /\ prev = state
    /\ event = NoEvent
    /\ message = None
    /\ decisions = 0
    /\ script = NoScript
    /\ votes = [on |-> TRUE, prevotes |-> [r \in Rounds |-> 0],
                precommits |-> [r \in Rounds |-> 0]]

SpecVotes == InitVotes /\ [][Next]_vars

\* ------------------------------------------------------------- type check
TypeOK ==
    /\ state.height \in Heights
    /\ state.round \in Rounds
    /\ state.step \in RoundStep
    /\ event \in Event \cup {NoEvent}
    /\ decisions \in 0..MaxDecisions

\* A call of next has returned and its result is still at hand.
Called == event # NoEvent

\* ------------------------------------------------------------------ claims
MsgType(m) == IF IsSome(m) THEN Unwrap(m).type ELSE "None"

\* C1: Commit is terminal. Every call of next made on a state whose step is
\* Commit returns that state unchanged and returns no message.
CommitTerminal ==
    (Called /\ prev.step = "Commit") => (state = prev /\ message = None)

\* C2: Round monotonicity. The state returned by next never has a smaller
\* round than the state it was called on (all event rounds are >= 0).
RoundMonotone ==
    Called => state.round >= prev.round

\* C3: Locked implies valid. Whenever locked is set, valid is set and
\* valid.round >= locked.round.
LockedImpliesValid ==
    IsSome(state.locked) =>
        /\ IsSome(state.valid)
        /\ Unwrap(state.valid).round >= Unwrap(state.locked).round

\* C4: Lock preservation. PolkaValue(r, v) with r == round handled in step
\* Prevote sets locked = {round, v} and emits Precommit(round, Some(v)); every
\* other call of next returns a state with the locked it was called with.
LockPreservation ==
    Called =>
        IF event.type = "PolkaValue" /\ prev.step = "Prevote"
           /\ event.r = prev.round
        THEN /\ state.locked = Some(RoundValue(prev.round, event.v))
             /\ message = Some([type |-> "Precommit", round |-> prev.round,
                                value |-> Some(event.v)])
        ELSE state.locked = prev.locked

\* C4 witness: a lock taken in an earlier round survived the round change
\* and is now replaced by a lock on another value in the current round.
LockReplaced ==
    /\ Called
    /\ event.type = "PolkaValue" /\ prev.step = "Prevote"
    /\ event.r = prev.round
    /\ IsSome(prev.locked)
    /\ Unwrap(prev.locked).round < prev.round
    /\ Unwrap(prev.locked).value # event.v
    /\ state.locked = Some(RoundValue(prev.round, event.v))

\* The prevote value C5 states for ProposalPolka(r, vr, proposed).
PolkaPrevoteValue(locked, vr, proposed) ==
    IF \/ ~IsSome(locked)
       \/ Unwrap(locked).round <= vr
       \/ Unwrap(locked).value = proposed
    THEN Some(proposed)
    ELSE None

\* C5: in step Propose, ProposalPolka(r, vr, proposed) with r == round moves
\* to Prevote and emits Prevote(round, Some(proposed)) iff there is no lock,
\* or locked.round <= vr, or locked.value == proposed; else Prevote(round, nil).
ProposalPolkaPrevote ==
    (Called /\ event.type = "ProposalPolka" /\ prev.step = "Propose"
        /\ event.r = prev.round) =>
        /\ state.step = "Prevote"
        /\ message = Some([type |-> "Prevote", round |-> prev.round,
                           value |-> PolkaPrevoteValue(prev.locked, event.vr,
                                                       event.v)])

\* C6: in step Propose, Proposal(r, proposed) with r == round moves to
\* Prevote and emits Prevote(round, nil) when locked is set on another value,
\* and Prevote(round, Some(proposed)) otherwise.
ProposalPrevote ==
    (Called /\ event.type = "Proposal" /\ prev.step = "Propose"
        /\ event.r = prev.round) =>
        /\ state.step = "Prevote"
        /\ message = Some([type |-> "Prevote", round |-> prev.round,
                           value |-> IF /\ IsSome(prev.locked)
                                        /\ Unwrap(prev.locked).value # event.v
                                     THEN None
                                     ELSE Some(event.v)])

\* C6 witness: locked in an earlier round on one value, a proposal for
\* another value arrives in the current round and is prevoted nil.
ConflictingProposalPrevotedNil ==
    /\ Called
    /\ event.type = "Proposal" /\ prev.step = "Propose"
    /\ event.r = prev.round
    /\ IsSome(prev.locked)
    /\ Unwrap(prev.locked).round < prev.round
    /\ Unwrap(prev.locked).value # event.v
    /\ message = Some([type |-> "Prevote", round |-> prev.round,
                       value |-> None])

\* C7: an emitted Prevote, Precommit or Timeout carries the round of the
\* state that next returns.
VoteRoundBound ==
    MsgType(message) \in {"Prevote", "Precommit", "Timeout"} =>
        Unwrap(message).round = state.round

\* C7 witness: a call that changed the round and emitted a Timeout.
TimeoutAfterRoundChange ==
    /\ Called
    /\ state.round # prev.round
    /\ MsgType(message) = "Timeout"

\* C8: a Decision is final. Over any sequence of events at most one Decision
\* message is emitted.
AtMostOneDecision ==
    decisions <= 1

\* The transition matrix: the (step, event) pairs for which a rule is listed
\* and its round guard holds.
MatrixMatches(step, e, round) ==
    \/ step = "NewRound" /\ e.type \in {"NewRoundProposer", "NewRound"}
    \/ /\ step = "Propose"
       /\ e.type \in {"Proposal", "ProposalInvalid", "ProposalPolka",
                      "TimeoutPropose"}
       /\ e.r = round
    \/ /\ step = "Prevote"
       /\ e.type \in {"PolkaAny", "PolkaNil", "PolkaValue", "TimeoutPrevote"}
       /\ e.r = round
    \/ step = "Precommit" /\ e.type = "PolkaValue" /\ e.r = round
    \/ e.type = "PrecommitAny" /\ e.r = round
    \/ e.type = "PrecommitValue"
    \/ e.type \in {"RoundSkipProposer", "RoundSkip"} /\ e.r > round
    \/ e.type = "TimeoutPrecommitProposer" /\ e.r = round
    \/ e.type = "TimeoutPrecommit"

\* C9: unmatched combinations are no-ops. A call of next on a (step, event)
\* pair that matches no rule of the matrix returns the state unchanged and no
\* message; every call returns a well-formed state and at most one message.
UnmatchedNoOp ==
    Called =>
        /\ ~MatrixMatches(prev.step, event, prev.round) =>
              (state = prev /\ message = None)
        /\ state.step \in RoundStep
        /\ MsgType(message) \in {"None", "Proposal", "Prevote", "Precommit",
                                 "Timeout", "Decision"}

\* C9 witness: an event of the current round that is not listed for the
\* step (a Proposal while in Precommit) left the state as it was.
UnlistedEventIgnored ==
    /\ Called
    /\ prev.step = "Precommit"
    /\ event.type = "Proposal" /\ event.r = prev.round
    /\ state = prev /\ message = None

\* C10: stale events are dropped. An event whose round is below the state's
\* round, other than TimeoutPrecommit and PrecommitValue, changes nothing and
\* emits nothing.
StaleDropped ==
    (Called /\ event.r < prev.round
        /\ event.type \notin {"TimeoutPrecommit", "PrecommitValue"}) =>
        (state = prev /\ message = None)

\* C10 witness: PolkaAny for a past round delivered in step Prevote.
StalePolkaAnyDropped ==
    /\ Called
    /\ prev.step = "Prevote"
    /\ event.type = "PolkaAny" /\ event.r < prev.round
    /\ state = prev /\ message = None

\* C11: height stability. Every call of next returns a state with the height
\* of the state it was called on, and the height is the one State::new was
\* given.
HeightStable ==
    /\ state.height = created
    /\ Called => state.height = prev.height

\* C11 witness: at a height other than 0, a call moved the state to a round
\* whose number differs from the height.
HeightKeptAcrossRounds ==
    /\ Called
    /\ created # 0
    /\ state.round # prev.round
    /\ state.round # created
    /\ state.height = created

\* C12: non-proposer happy path. From State::new(0) the events NewRound(0);
\* Proposal(0, V1); PolkaValue(0, V1); PrecommitValue(0, V1) return, in order,
\* Timeout{0, Propose}; Prevote{0, Some(V1)}; Precommit{0, Some(V1)};
\* Decision{0, V1} and end in step Commit with locked = valid = {0, V1}.
HappyPathOutcome ==
    /\ (script.on /\ script.events = <<>>) =>
          state = [height |-> 0, round |-> 0, step |-> "NewRound",
                   locked |-> None, valid |-> None]
    /\ \A v \in Value :
          (script.on /\ script.events = HappyPath(v)) =>
              /\ script.msgs =
                    << Some([type |-> "Timeout", round |-> 0,
                             step |-> "Propose"]),
                       Some([type |-> "Prevote", round |-> 0,
                             value |-> Some(v)]),
                       Some([type |-> "Precommit", round |-> 0,
                             value |-> Some(v)]),
                       Some([type |-> "Decision", round |-> 0,
                             value |-> v]) >>
              /\ state.step = "Commit"
              /\ state.round = 0
              /\ state.locked = Some([round |-> 0, value |-> v])
              /\ state.valid = Some([round |-> 0, value |-> v])

\* C12 witness: the four events of the happy path have been delivered.
HappyPathDone ==
    /\ script.on
    /\ \E v \in Value : script.events = HappyPath(v)
    /\ Len(script.msgs) = Len(script.events)

\* The call entered a round as proposer; EnteredRound is the round entered.
EntersAsProposer ==
    \/ event.type = "NewRoundProposer" /\ prev.step = "NewRound"
    \/ event.type = "RoundSkipProposer" /\ event.r > prev.round
    \/ event.type = "TimeoutPrecommitProposer" /\ event.r = prev.round

EnteredRound ==
    IF event.type = "TimeoutPrecommitProposer" THEN prev.round + 1 ELSE event.r

\* C13: the proposer re-proposes its valid value. Entering round r as
\* proposer sets round = r and step = Propose, leaves locked and valid alone,
\* and emits Proposal{r, valid.value, valid.round} if valid is set, else
\* Proposal{r, v, -1} with the event's value v.
ProposerReproposesValid ==
    (Called /\ EntersAsProposer) =>
        /\ state = [prev EXCEPT !.round = EnteredRound, !.step = "Propose"]
        /\ message =
              Some([type |-> "Proposal", round |-> EnteredRound,
                    value |-> IF IsSome(prev.valid)
                              THEN Unwrap(prev.valid).value
                              ELSE event.v,
                    pol_round |-> IF IsSome(prev.valid)
                                  THEN Unwrap(prev.valid).round
                                  ELSE -1])

\* C13 witness: the proposer holds a valid value from an earlier round and
\* proposes it instead of the fresh value of the event.
ValidValueReproposed ==
    /\ Called /\ EntersAsProposer
    /\ IsSome(prev.valid)
    /\ Unwrap(prev.valid).value # event.v
    /\ MsgType(message) = "Proposal"
    /\ Unwrap(message).value = Unwrap(prev.valid).value
    /\ Unwrap(message).pol_round < state.round

\* C14: a precommit timeout advances exactly one round. TimeoutPrecommit(r)
\* for any r, and TimeoutPrecommitProposer(r, v) with r == round, return a
\* state with round = input round + 1 and step Propose, and the emitted
\* Timeout or Proposal carries that round.
PrecommitTimeoutAdvancesOne ==
    (Called /\ (\/ event.type = "TimeoutPrecommit"
                \/ /\ event.type = "TimeoutPrecommitProposer"
                   /\ event.r = prev.round)) =>
        /\ state.round = prev.round + 1
        /\ state.step = "Propose"
        /\ MsgType(message) \in {"Timeout", "Proposal"}
        /\ Unwrap(message).round = state.round

\* C15: round skip. In steps NewRound, Propose, Prevote and Precommit,
\* RoundSkip(r) with r > round sets round = r and step = Propose, leaves
\* height, locked and valid alone and emits Timeout{r, Propose}; with
\* r <= round it changes nothing and emits nothing.
RoundSkipOutcome ==
    (Called /\ event.type = "RoundSkip" /\ prev.step # "Commit") =>
        IF event.r > prev.round
        THEN /\ state = [prev EXCEPT !.round = event.r, !.step = "Propose"]
             /\ message = Some([type |-> "Timeout", round |-> event.r,
                                step |-> "Propose"])
        ELSE state = prev /\ message = None

\* C15 witness: a locked replica in Precommit skipped more than one round.
RoundSkippedAhead ==
    /\ Called
    /\ event.type = "RoundSkip" /\ prev.step = "Precommit"
    /\ IsSome(prev.locked)
    /\ event.r > prev.round + 1
    /\ state.round = event.r

\* C16: PrecommitValue has no round guard. In steps NewRound, Propose,
\* Prevote and Precommit, PrecommitValue(r, v) for any r sets step = Commit,
\* leaves height, round, locked and valid alone and emits Decision{r, v}.
PrecommitValueDecides ==
    (Called /\ event.type = "PrecommitValue" /\ prev.step # "Commit") =>
        /\ state = [prev EXCEPT !.step = "Commit"]
        /\ message = Some([type |-> "Decision", round |-> event.r,
                           value |-> event.v])

\* C16 witness: a decision for a round other than the state's round.
DecisionForOtherRound ==
    /\ Called
    /\ event.type = "PrecommitValue" /\ prev.step = "Prevote"
    /\ event.r # prev.round
    /\ MsgType(message) = "Decision"
    /\ Unwrap(message).round = event.r

\* C17: every round change re-enters Propose. If a call returns a state in
\* another round, its step is Propose and the message is a Proposal, or a
\* Timeout with step Propose, for the new round.
RoundChangeEntersPropose ==
    (Called /\ state.round # prev.round) =>
        /\ state.step = "Propose"
        /\ \/ MsgType(message) = "Proposal"
           \/ MsgType(message) = "Timeout" /\ Unwrap(message).step = "Propose"
        /\ Unwrap(message).round = state.round

\* C17 witness: a round change out of step Precommit.
RoundChangedFromPrecommit ==
    /\ Called
    /\ prev.step = "Precommit"
    /\ state.round # prev.round
    /\ state.step = "Propose"

\* C18: PolkaValue(r, v) with r == round in step Precommit sets valid =
\* {round, v}, leaves height, round, step and locked alone and emits nothing;
\* in step Prevote it sets locked and valid to {round, v}, moves to Precommit
\* and emits Precommit(round, Some(v)).
PolkaValueByStep ==
    (Called /\ event.type = "PolkaValue" /\ event.r = prev.round) =>
        LET rv == Some([round |-> prev.round, value |-> event.v]) IN
        /\ prev.step = "Precommit" =>
              /\ state = [prev EXCEPT !.valid = rv]
              /\ message = None
        /\ prev.step = "Prevote" =>
              /\ state = [prev EXCEPT !.locked = rv, !.valid = rv,
                                      !.step = "Precommit"]
              /\ message = Some([type |-> "Precommit", round |-> prev.round,
                                 value |-> Some(event.v)])

\* C18 witness: in Precommit, locked on one value, a polka for another value
\* moved valid and left locked.
ValidRefreshedOnly ==
    /\ Called
    /\ event.type = "PolkaValue" /\ event.r = prev.round
    /\ prev.step = "Precommit"
    /\ IsSome(prev.locked)
    /\ Unwrap(prev.locked).value # event.v
    /\ state.valid # prev.valid
    /\ state.locked = prev.locked

\* The call was one of the redundant events of C19.
ArmsPrevoteTimer ==
    event.type = "PolkaAny" /\ prev.step = "Prevote" /\ event.r = prev.round

ArmsPrecommitTimer ==
    event.type = "PrecommitAny" /\ event.r = prev.round

RefreshesValid ==
    event.type = "PolkaValue" /\ prev.step = "Precommit"
        /\ event.r = prev.round

\* C19: timer arming and valid refresh are idempotent. Delivering the same
\* event again to the returned state returns that state and the same message
\* (Timeout{round, Prevote}, Timeout{round, Precommit}, none); the timer
\* arming events leave the state unchanged.
RedundantIdempotent ==
    (Called /\ (ArmsPrevoteTimer \/ ArmsPrecommitTimer \/ RefreshesValid)) =>
        /\ next(state, event) = [state |-> state, msg |-> message]
        /\ ArmsPrevoteTimer =>
              /\ state = prev
              /\ message = Some([type |-> "Timeout", round |-> prev.round,
                                 step |-> "Prevote"])
        /\ ArmsPrecommitTimer =>
              /\ state = prev
              /\ message = Some([type |-> "Timeout", round |-> prev.round,
                                 step |-> "Precommit"])
        /\ RefreshesValid => message = None

\* C19 witness: PrecommitAny for the current round delivered before the
\* replica reached Precommit, and delivering it again gives the same result.
PrecommitTimerRearmed ==
    /\ Called
    /\ ArmsPrecommitTimer
    /\ prev.step = "Prevote"
    /\ next(state, event).msg = message
    /\ MsgType(message) = "Timeout"

\* C20: no equivocation. Over any sequence of events from State::new(h),
\* for each round the replica emits at most one Prevote and at most one
\* Precommit carrying that round.
NoEquivocation ==
    votes.on =>
        \A r \in Rounds : votes.prevotes[r] <= 1 /\ votes.precommits[r] <= 1

====
